---- MODULE Spec2Model ----
(***************************************************************************)
(* Model of the kozen-delta migration engine: MigrationService driving a   *)
(* Tracker (BaseTracker scan/info + the MongoDB tracker's applied log) and *)
(* a Runner (BaseRunner type gate + hook, or the shell-exec BinRunner).    *)
(*                                                                         *)
(* A migration file is a number f in Files.  Its basename carries the      *)
(* timestamp Created(f) and its name, so the pair (file, name) of a change *)
(* is determined by f.  The applied log is the tracking collection, kept   *)
(* in insertion order.                                                     *)
(***************************************************************************)
EXTENDS Integers, Sequences, FiniteSets, TLC

\* ---------------------------------------------------------------- bounds
NFiles == 3
MaxLog == 3
MaxCount == 1
MaxDirect == 2
MaxName == 4
NCallers == 3

Files == 1..NFiles

\* ------------------------------------------------------------ the state
VARIABLES
    dir,        \* the migration files present in the scanned directory
    listing,    \* the order in which the file system lists a directory
    log,        \* the tracking collection: inserted documents, in order
    runnerKind, \* the runner class registered under the request's key
    deleteBy,   \* which MdbTracker.delete the deployment carries
    pc,         \* position of the service operation
    req,        \* the current / last operation's request: its action and the
                \* take-limit (filter.count) the operation applies
    drv,        \* what getDrivers resolved: [runner, tracker]
    list,       \* the list the service iterates
    idx,        \* index of the next change of list
    broke,      \* the loop left by break
    valid,      \* changes whose runner call succeeded
    results,    \* result.data of the successful runner calls
    attempts,   \* changes runner.commit / runner.rollback was called with
    hooks,      \* changes whose migration hook was actually invoked
    errors,     \* changes the service logged an error for
    persist,    \* outcome of tracker.add / tracker.delete as returned
    ret,        \* the Result returned by the service operation
    prior,      \* the log when the operation started
    envOk,      \* no hook and no database call of the operation has failed
    cleanLog,   \* the log is what one commit, failing nowhere, wrote to an
                \* empty log, and nothing has touched it since
    fromClean,  \* cleanLog when the operation started
    info,       \* the data of the Result tracker.status returned
    call,       \* the last direct call of the runner driver and its Result
    conf,       \* a driver instance under configure: its handles and what
                \* its configure calls have opened and created so far
    trackerKind, \* the tracker class registered under the request's key
    scanFailed, \* a read of the operation's directory scan failed
    target,     \* the base name handed to BaseTracker.meta
    fileMeta,   \* what BaseTracker.meta returned for target
    repeat,     \* the request of the first commit of a pair of identical commits
    cfg,        \* an MdbTracker instance and the configure calls under way on it
    jobs        \* the commit operations of the service that are under way together

vars == <<dir, listing, log, runnerKind, deleteBy, pc, req, drv, list, idx, broke,
          valid, results, attempts, hooks, errors, persist, ret, prior,
          envOk, cleanLog, fromClean, info, call, conf, trackerKind, scanFailed, target, fileMeta, repeat, cfg, jobs>>

\* ------------------------------------------------------- change records
NoId == 0
NoCreated == 0
\* new Date(undefined), an invalid date: an object, so not falsy, and not
\* later or earlier than any date
InvalidDate == -1
NoType == "absent"

\* timestamp embedded in the basename of file f; files 2 and 3 share one
Created(f) == f - (f \div 3)

\* the change BaseTracker.scan emits for file f: no id, no type, no applied
ScanChange(f) ==
    [file |-> f, created |-> Created(f), id |-> NoId, type |-> NoType,
     applied |-> FALSE]

\* the projection of MdbTracker.list: name, file, path, extension, date
Project(e) ==
    [file |-> e.file, created |-> NoCreated, id |-> NoId, type |-> NoType,
     applied |-> FALSE]

FilesOf(s) == {s[i].file : i \in 1..Len(s)}

FileSeq(s) == [i \in 1..Len(s) |-> s[i].file]

\* ---------------------------------------------------------- BaseTracker
RECURSIVE Ascending(_)
Ascending(S) ==
    IF S = {} THEN <<>>
    ELSE LET m == CHOOSE x \in S : \A y \in S : x <= y
         IN  <<m>> \o Ascending(S \ {m})

\* fs.readdir: the entries of the directory in the file system's order,
\* here by name, ascending or descending
ReadDir(S, order) ==
    LET a == Ascending(S)
    IN  IF order = "asc" THEN a ELSE [i \in 1..Len(a) |-> a[Len(a) + 1 - i]]

\* available.sort by created (Array.prototype.sort is stable)
InsertByCreated(s, c) ==
    LET n == Cardinality({i \in 1..Len(s) : s[i].created <= c.created})
    IN  SubSeq(s, 1, n) \o <<c>> \o SubSeq(s, n + 1, Len(s))

RECURSIVE SortByCreated(_)
SortByCreated(s) ==
    IF s = <<>> THEN <<>>
    ELSE InsertByCreated(SortByCreated(SubSeq(s, 1, Len(s) - 1)), s[Len(s)])

\* MdbTracker.last: sort({created: -1}).limit(1); 0 when the log is empty
LastCreated(l) ==
    IF l = <<>> THEN NoCreated
    ELSE CHOOSE m \in {l[i].created : i \in 1..Len(l)} :
            \A i \in 1..Len(l) : l[i].created <= m

\* the predicate BaseTracker.info hands to scan
InfoFilter(lastCreated, filter, change) ==
    LET byCreated == IF lastCreated # NoCreated
                     THEN /\ change.created # NoCreated
                          /\ lastCreated # InvalidDate
                          /\ change.created > lastCreated
                     ELSE TRUE
        doesMatch == change.file \in filter.name
    IN  IF filter.hasName
        THEN (IF filter.type = "exclude" THEN ~doesMatch ELSE doesMatch)
        ELSE byCreated

\* BaseTracker.scan: the two bags, the accepted one sorted by created
Scan(order, lastCreated, filter) ==
    LET all == [i \in 1..Len(order) |-> ScanChange(order[i])]
        ok(c) == InfoFilter(lastCreated, filter, c)
        ko(c) == ~InfoFilter(lastCreated, filter, c)
    IN  [available |-> SortByCreated(SelectSeq(all, ok)),
         missing   |-> SelectSeq(all, ko)]

\* (variant: the tail is sliced one entry too far)
ListSplitSkipsOne(l, count) ==
    IF count = 0 THEN [first |-> l, second |-> <<>>]
    ELSE [first  |-> SubSeq(l, 1, IF count < Len(l) THEN count ELSE Len(l)),
          second |-> SubSeq(l, count + 2, Len(l))]

\* BaseTracker.listSplit
ListSplit(l, count) ==
    IF count = 0 THEN [first |-> l, second |-> <<>>]
    ELSE [first  |-> SubSeq(l, 1, IF count < Len(l) THEN count ELSE Len(l)),
          second |-> SubSeq(l, count + 1, Len(l))]

\* no read of the scan fails
NoFail == NFiles + 1

\* BaseTracker.scan when readdir (k = 0) or the stat of entry k + 1 throws:
\* the catch block logs the error and the two bags are returned as the loop
\* left them, the accepted one not sorted
ScanCaught(order, lastCreated, filter, k) ==
    LET all == [i \in 1..k |-> ScanChange(order[i])]
        ok(c) == InfoFilter(lastCreated, filter, c)
        ko(c) == ~InfoFilter(lastCreated, filter, c)
    IN  [available |-> SelectSeq(all, ok), missing |-> SelectSeq(all, ko)]

\* BaseTracker.info, from the bags scan returned
InfoFrom(l, filter, s) ==
    LET p == ListSplit(s.available, filter.count)
    IN  [last |-> LastCreated(l), available |-> p.first, applied |-> s.missing,
         ignored |-> p.second, missing |-> <<>>]

\* BaseTracker.info
Info(l, order, filter) == InfoFrom(l, filter, Scan(order, LastCreated(l), filter))

\* BaseTracker.info of a request whose scan fails after k entries
InfoAt(l, order, filter, k) ==
    IF k = NoFail THEN Info(l, order, filter)
    ELSE InfoFrom(l, filter, ScanCaught(order, LastCreated(l), filter, k))

\* BaseTracker.available
Available(l, order, filter) == Info(l, order, filter).available

\* ------------------------------------------------------ BaseTracker.meta
\* A base name is a sequence of characters: a digit, a letter, the dot.
Chars == {"1", "a", "."}
NoDate == <<>>

\* the base names of at most n characters
RECURSIVE NamesUpTo(_)
NamesUpTo(n) ==
    IF n = 0 THEN {<<>>}
    ELSE LET shorter == NamesUpTo(n - 1)
         IN  shorter \cup {Append(s, c) : s \in {t \in shorter : Len(t) = n - 1}, c \in Chars}

\* String.prototype.split('.')
RECURSIVE Split(_)
Split(s) ==
    LET dots == {i \in 1..Len(s) : s[i] = "."}
    IN  IF dots = {} THEN <<s>>
        ELSE LET i == CHOOSE j \in dots : \A k \in dots : j <= k
             IN  <<SubSeq(s, 1, i - 1)>> \o Split(SubSeq(s, i + 1, Len(s)))

\* strToDate of @kozen/engine: the date a run of digits writes, nothing for
\* any other segment
StrToDate(seg) ==
    IF seg # <<>> /\ \A i \in 1..Len(seg) : seg[i] = "1" THEN seg ELSE NoDate

\* BaseTracker.meta
Meta(target_) ==
    LET parts == Split(target_)
        created == StrToDate(parts[1])
    IN  [name |-> IF created # NoDate
                  THEN (IF Len(parts) >= 2 THEN parts[2] ELSE <<>>)
                  ELSE parts[1],
         created |-> created]

NoMeta == [name |-> <<>>, created |-> NoDate]

\* ----------------------------------------------------------- MdbTracker
\* MdbTracker.missing: of info.applied (the scanned files the predicate
\* rejected), those for which the collection holds no document with the same
\* (file, name) and created <= last.created
TrackerMissing(l, content) ==
    LET applied == content.applied
        found(e) == /\ e.file \in FilesOf(applied)
                    /\ (content.last # NoCreated => e.created <= content.last)
        existing == FilesOf(SelectSeq(l, found))
        absent(c) == c.file \notin existing
    IN  IF applied = <<>> THEN <<>> ELSE SelectSeq(applied, absent)

\* BaseTracker.status: info, then missing and available, as basenames
TrackerStatus(l, order, filter, k) ==
    LET content == InfoAt(l, order, filter, k)
    IN  [filter    |-> filter,
         applied   |-> FileSeq(content.applied),
         missing   |-> FileSeq(TrackerMissing(l, content)),
         ignored   |-> FileSeq(content.ignored),
         available |-> FileSeq(content.available)]

\* MdbTracker.list: find({}) in natural (insertion) order, projected
TrackerList(l) == [i \in 1..Len(l) |-> Project(l[i])]

\* the document insertMany stores for a change
Doc(c) == c

\* MdbTracker.delete, components/mdb/trackers: deleteMany({id: {$in: ids}});
\* an undefined id is sent as null and null matches a missing id
DeleteById(l, changes) ==
    LET ids == {changes[i].id : i \in 1..Len(changes)}
        keep(e) == e.id \notin ids
    IN  SelectSeq(l, keep)

\* MdbTracker.delete, later revision: deleteMany({$or: [{file, name}]})
DeleteByPair(l, changes) ==
    LET keep(e) == e.file \notin FilesOf(changes)
    IN  SelectSeq(l, keep)

\* ------------------------------------------------------------- requests
\* filter.name is a regular expression tested against change.file; it is
\* modelled by the set of files it matches (here: it names one migration)
Patterns == {{f} : f \in Files}

NoFilter == [hasName |-> FALSE, name |-> {}, type |-> "include", count |-> 0]

Filters ==
    {[NoFilter EXCEPT !.count = n] : n \in 0..MaxCount}
    \cup
    {[hasName |-> TRUE, name |-> S, type |-> t, count |-> n] :
        S \in Patterns, t \in {"include", "exclude"}, n \in 0..MaxCount}

\* no commit has been made whose request is to be repeated
NoRepeat == [filter |-> NoFilter, stage |-> "none", full |-> FALSE, failed |-> 0]

\* what the two registry lookups of getDrivers can do: yield the driver,
\* yield no driver, or throw
DriverCases ==
    {[runner |-> "ok", tracker |-> "ok"], [runner |-> "null", tracker |-> "ok"],
     [runner |-> "ok", tracker |-> "null"], [runner |-> "throw", tracker |-> "ok"],
     [runner |-> "ok", tracker |-> "throw"]}

NoRet == [success |-> FALSE, data |-> <<>>, returned |-> FALSE]

NoInfo == [filter |-> NoFilter, applied |-> <<>>, missing |-> <<>>,
           ignored |-> <<>>, available |-> <<>>]

\* ---------------------------------------------------------------- runners
\* the Result of a runner call, and what the call did on the way: whether
\* the migration hook (or artifact) was invoked, the sessions opened, the
\* transactions started, whether the transaction was committed, the
\* endSession calls, and which artifact the shell-exec runner executed
NoRun == [success |-> FALSE, hook |-> FALSE, sessions |-> 0, started |-> 0,
          committed |-> FALSE, ended |-> 0, ran |-> "none"]

\* every path through a runner call.  Module loader: the hook returns and
\* the transaction commits (ok), the hook throws (fail), commitTransaction
\* throws (commitFails), either of the two with abortTransaction throwing
\* as well, or configure rejects (throw).  Shell evaluator: the user code
\* completes (ok) or throws (fail), the file is empty or unreadable (empty),
\* the shell rejects the script (shellFails), or configure rejects (throw).
\* Shell exec: the executed file exits with zero (ok) or not (execFails),
\* the derived rollback file does not exist (fail), or the path holds no
\* '.commit.' and the file it names exits with zero (sameOk) or not (sameFails)
RunnerPaths(kind) ==
    IF kind = "mdb"
    THEN {"ok", "fail", "commitFails", "failAbortFails", "commitFailsAbortFails", "throw"}
    ELSE IF kind = "msh" THEN {"ok", "fail", "empty", "shellFails", "throw"}
    ELSE {"ok", "execFails", "fail", "sameOk", "sameFails"}

\* what one runner call of a batch can do: any of the runner's paths
Outcomes(kind) == RunnerPaths(kind)

\* (variant: endSession is called after commitTransaction, inside try)
SessionsEndedInTry(out) == IF out = "ok" THEN 1 ELSE 0

\* MdbRunner.runModule: session.endSession() is the first statement of the
\* finally block
SessionsEnded(out) == 1

\* MdbRunner.runModule: startSession; try { startTransaction, the hook,
\* commitTransaction } catch { abortTransaction; error = err } finally
\* { endSession; if (error) throw error; return result }.  When
\* abortTransaction throws, error is never assigned and the return of the
\* finally block replaces the exception.  A commitTransaction that threw is
\* taken not to have committed.
MdbRunModule(out) ==
    LET hookOk == out \in {"ok", "commitFails", "commitFailsAbortFails"}
        commitOk == out = "ok"
        caught == ~(hookOk /\ commitOk)
        abortThrows == out \in {"failAbortFails", "commitFailsAbortFails"}
        error == caught /\ ~abortThrows
    IN  [NoRun EXCEPT !.success = ~error, !.hook = TRUE, !.sessions = 1, !.started = 1,
                      !.committed = (hookOk /\ commitOk), !.ended = SessionsEnded(out)]

\* MshRunner.runModule: getContent ('' when the file cannot be read), throw
\* when it is empty, else shell.run of a script that wraps the content in
\* try { content; commitTransaction } catch { log; abortTransaction }
\* finally { endSession }: an exception of the content stays inside the script
MshRunModule(out) ==
    IF out \in {"empty", "shellFails"} THEN NoRun
    ELSE [NoRun EXCEPT !.success = TRUE, !.hook = TRUE, !.sessions = 1, !.started = 1,
                       !.committed = (out = "ok"), !.ended = 1]

\* this.runModule of the runner classes that extend BaseRunner
RunModule(kind, out) == IF kind = "msh" THEN MshRunModule(out) ELSE MdbRunModule(out)

\* BaseRunner.commit: configure, type gate, runModule(change, 'commit')
BaseRunnerCommit(kind, change, out) ==
    IF out = "throw" THEN NoRun
    ELSE IF change.type # NoType /\ change.type # "module" THEN NoRun
    ELSE RunModule(kind, out)

\* BaseRunner.rollback: configure, type gate, runModule(change, 'rollback')
BaseRunnerRollback(kind, change, out) ==
    IF out = "throw" THEN NoRun
    ELSE IF change.type # "module" THEN NoRun
    ELSE RunModule(kind, out)

\* BinRunner.commit: execute change.path with the configured program
BinRunnerCommit(change, out) ==
    [NoRun EXCEPT !.success = (out \in {"ok", "sameOk"}), !.hook = TRUE, !.ran = "commit"]

\* BinRunner.rollback: replace '.commit.' by '.rollback.' in change.path and
\* execute the resulting path when it exists; a path without '.commit.' is
\* left as it is by replace, exists, and is executed
BinRunnerRollback(change, out) ==
    IF out = "fail" THEN NoRun
    ELSE IF out \in {"sameOk", "sameFails"}
         THEN [NoRun EXCEPT !.success = (out = "sameOk"), !.ran = "commit"]
         ELSE [NoRun EXCEPT !.success = (out = "ok"), !.hook = (out = "ok"),
                            !.ran = "rollback"]

RunnerCall(kind, action, change, out) ==
    IF kind = "bin"
    THEN (IF action = "commit" THEN BinRunnerCommit(change, out)
          ELSE BinRunnerRollback(change, out))
    ELSE (IF action = "commit" THEN BaseRunnerCommit(kind, change, out)
          ELSE BaseRunnerRollback(kind, change, out))

\* the values change.type can take: absent, 'module', or another kind
Types == {NoType, "module", "script"}

NoCall == [action |-> "none", file |-> 0, type |-> NoType, out |-> "ok", run |-> NoRun]

\* ------------------------------------------------------------- configure
\* the driver classes whose configure opens a connection
Drivers == {"MdbTracker", "SqliteTracker", "MdbRunner", "MdbModuleRunner"}

\* handle: this.client / this.db is set; ready: a configure call has
\* returned; connections, created: connections opened and collections or
\* tables created by the calls so far; exists: the collection or table
\* exists in the store the instance now points to; durable: the store
\* outlives a connection (not sqlite's default ':memory:')
NoConf == [driver |-> "none", handle |-> FALSE, ready |-> FALSE, connections |-> 0,
           created |-> 0, exists |-> FALSE, durable |-> TRUE, calls |-> 0]

\* MdbTracker.configure: returns at once when this.client is set; else
\* connects and runs setup (createCollection unless listCollections finds it)
MdbTrackerConfigure(c, connectOk, setupOk) ==
    IF c.handle THEN [c EXCEPT !.ready = TRUE]
    ELSE IF ~connectOk THEN c
    ELSE LET made == IF c.exists THEN 0 ELSE 1
         IN  [c EXCEPT !.handle = TRUE, !.connections = @ + 1,
                       !.created = @ + made, !.exists = TRUE, !.ready = setupOk]

\* SqliteTracker.configure: new Database(filename) on every call, then
\* CREATE TABLE IF NOT EXISTS
SqliteTrackerConfigure(c, connectOk, setupOk) ==
    IF ~connectOk THEN [c EXCEPT !.handle = TRUE]
    ELSE LET there == c.durable /\ c.exists
             made == IF there \/ ~setupOk THEN 0 ELSE 1
         IN  [c EXCEPT !.handle = TRUE, !.connections = @ + 1,
                       !.created = @ + made, !.exists = (there \/ setupOk),
                       !.ready = (@ \/ setupOk)]

\* MdbRunner.configure (drivers/runners): new MongoClient and connect on
\* every call
MdbRunnerConfigure(c, connectOk, setupOk) ==
    IF ~connectOk THEN [c EXCEPT !.handle = TRUE]
    ELSE [c EXCEPT !.handle = TRUE, !.connections = @ + 1, !.ready = TRUE]

\* MdbRunner.configure (components/mdb/runners): returns at once when the
\* client is connected; MdbClient.connect opens a connection when it has none
MdbModuleRunnerConfigure(c, connectOk, setupOk) ==
    IF c.handle THEN [c EXCEPT !.ready = TRUE]
    ELSE IF ~connectOk THEN c
    ELSE [c EXCEPT !.handle = TRUE, !.connections = @ + 1, !.ready = TRUE]

DriverConfigure(c, connectOk, setupOk) ==
    IF c.driver = "MdbTracker" THEN MdbTrackerConfigure(c, connectOk, setupOk)
    ELSE IF c.driver = "SqliteTracker" THEN SqliteTrackerConfigure(c, connectOk, setupOk)
    ELSE IF c.driver = "MdbRunner" THEN MdbRunnerConfigure(c, connectOk, setupOk)
    ELSE MdbModuleRunnerConfigure(c, connectOk, setupOk)

\* ------------------------------------- configure calls that overlap
\* the operations that call configure on one MdbTracker instance
Callers == 1..NCallers

NoHandles == [returned |-> FALSE, connected |-> FALSE, collection |-> FALSE]

\* the instance: client, collection: the fields of the tracker are set;
\* mdbClient, options, connected: the client and _options of its MdbClient
\* are set, the client's connect has completed; exists: the collection
\* exists on the server; creates, indexes: createCollection and
\* createIndexes calls that succeeded; at: where each call stands, an await
\* it is suspended at, or its end; got: the handles a call returned
NoCfg ==
    [client |-> FALSE, collection |-> FALSE, mdbClient |-> FALSE, options |-> FALSE,
     connected |-> FALSE, exists |-> FALSE, creates |-> 0, indexes |-> 0,
     fault |-> FALSE,
     at |-> [p \in Callers |-> "none"], got |-> [p \in Callers |-> NoHandles]]

\* the config a configure call returns
Handles(c) == [returned |-> TRUE, connected |-> c.connected, collection |-> c.collection]

\* this.db = this.mdb.db(), then setup up to its first await: db() reads
\* this.options.database, and _options is undefined until a connect has
\* completed
SetupStart(c, p) ==
    IF c.options THEN [c EXCEPT !.at[p] = "listCollections"]
    ELSE [c EXCEPT !.at[p] = "rejected"]

\* MdbTracker.configure up to its first await: the guard on this.client,
\* then MdbClient.connect, which returns its client when it has one and
\* else makes one and awaits its connect
ConfigureCall(c, p) ==
    IF c.client THEN [c EXCEPT !.at[p] = "resolved", !.got[p] = Handles(c)]
    ELSE IF c.mdbClient THEN [c EXCEPT !.at[p] = "connect returned"]
    ELSE [c EXCEPT !.mdbClient = TRUE, !.at[p] = "client.connect"]

\* a call resumes after the await it is suspended at and runs to its next
\* await or to its end
ConfigureResume(c, p, ok) ==
    IF c.at[p] = "client.connect"
    THEN IF ok
         THEN SetupStart([c EXCEPT !.connected = TRUE, !.options = TRUE, !.client = TRUE], p)
         ELSE [c EXCEPT !.at[p] = "rejected", !.fault = TRUE]
    ELSE IF c.at[p] = "connect returned"
    THEN SetupStart([c EXCEPT !.client = TRUE], p)
    ELSE IF c.at[p] = "listCollections"
    THEN IF c.exists
         THEN [c EXCEPT !.collection = TRUE, !.at[p] = "resolved",
                        !.got[p] = [returned |-> TRUE, connected |-> c.connected,
                                    collection |-> TRUE]]
         ELSE [c EXCEPT !.at[p] = "createCollection"]
    ELSE IF c.at[p] = "createCollection"
    THEN IF c.exists
         THEN [c EXCEPT !.at[p] = "rejected"]
         ELSE [c EXCEPT !.exists = TRUE, !.creates = @ + 1, !.collection = TRUE,
                        !.at[p] = "createIndexes"]
    ELSE [c EXCEPT !.indexes = @ + 1, !.at[p] = "resolved",
                   !.got[p] = Handles(c)]

\* --------------------------------------------------------- tracker writes
\* MdbTracker.add: configure, empty batch is a success, else one ordered
\* insertMany; n is the number of documents the server took before an error
MdbTrackerAdd(l, changes, connected, n) ==
    IF ~connected THEN [success |-> FALSE, log |-> l]
    ELSE IF changes = <<>> THEN [success |-> TRUE, log |-> l]
    ELSE [success |-> (n = Len(changes)),
          log |-> l \o [i \in 1..n |-> Doc(changes[i])]]

\* MdbTracker.delete of the deployed revision; an empty $or is a server error
MdbTrackerDelete(by, l, changes, connected) ==
    IF ~connected THEN [success |-> FALSE, log |-> l]
    ELSE IF by = "id" THEN [success |-> TRUE, log |-> DeleteById(l, changes)]
    ELSE IF changes = <<>> THEN [success |-> FALSE, log |-> l]
    ELSE [success |-> TRUE, log |-> DeleteByPair(l, changes)]

\* the tracker classes: MdbTracker and SqliteTracker extend the BaseTracker
\* above; MdbTrackerDrivers is the MdbTracker of drivers/trackers
TrackerKinds == {"MdbTracker", "SqliteTracker", "MdbTrackerDrivers"}

\* the tracker classes the service's registry offers
ServiceTrackers == {"MdbTracker", "SqliteTracker"}

\* tracker.last on an empty store: MdbTracker resolves to res[0], undefined;
\* SqliteTracker rejects with 'No changes found'
LastThrows(kind, l) == kind = "SqliteTracker" /\ l = <<>>

\* the row SqliteTracker.add inserts: id, name, file, path, extension and
\* appliedAt = now; created is not a column, and SqliteTracker.last makes
\* new Date(row.created) of it
SqliteRow(c) ==
    [file |-> c.file, created |-> InvalidDate, id |-> c.id, type |-> NoType,
     applied |-> TRUE]

\* SqliteTracker.add: BEGIN, one INSERT per change, then errorOccurred is
\* read before any INSERT has completed, so COMMIT is always the statement
\* queued and success the Result; row n + 1 (if any) is the one whose INSERT
\* reports an error in its callback
SqliteTrackerAdd(l, changes, connected, n) ==
    IF ~connected THEN [success |-> FALSE, log |-> l]
    ELSE LET rows == [i \in 1..Len(changes) |-> SqliteRow(changes[i])]
         IN  [success |-> TRUE,
              log |-> l \o SubSeq(rows, 1, n) \o SubSeq(rows, n + 2, Len(rows))]

\* MdbTracker.add of drivers/trackers: no guard for an empty batch, and
\* insertMany([]) throws into the catch block; appliedAt = now on every
\* document
DriversMdbTrackerAdd(l, changes, connected, n) ==
    IF ~connected \/ changes = <<>> THEN [success |-> FALSE, log |-> l]
    ELSE [success |-> (n = Len(changes)),
          log |-> l \o [i \in 1..n |-> [Doc(changes[i]) EXCEPT !.applied = TRUE]]]

\* SqliteTracker.delete: DELETE ... WHERE id IN ('<id>', ...); an undefined
\* id is sent as the text 'undefined' and matches no row
SqliteTrackerDelete(l, changes, connected) ==
    IF ~connected THEN [success |-> FALSE, log |-> l]
    ELSE LET ids == {changes[i].id : i \in 1..Len(changes)} \ {NoId}
             keep(e) == e.id \notin ids
         IN  [success |-> TRUE, log |-> SelectSeq(l, keep)]

TrackerAddOf(kind, l, changes, connected, n) ==
    IF kind = "SqliteTracker" THEN SqliteTrackerAdd(l, changes, connected, n)
    ELSE IF kind = "MdbTrackerDrivers" THEN DriversMdbTrackerAdd(l, changes, connected, n)
    ELSE MdbTrackerAdd(l, changes, connected, n)

TrackerDeleteOf(kind, by, l, changes, connected) ==
    IF kind = "SqliteTracker" THEN SqliteTrackerDelete(l, changes, connected)
    ELSE IF kind = "MdbTrackerDrivers" THEN MdbTrackerDelete("id", l, changes, connected)
    ELSE MdbTrackerDelete(by, l, changes, connected)

\* ---------------------------------------------- commits that overlap
\* the commit operations two callers of the service start
Operations == {"A", "B"}

\* a commit: at: the await it is suspended at, or none, or its end; list,
\* idx, valid: the locals of commit; alone: no other commit was under way
\* when it started
NoJob == [at |-> "none", list |-> <<>>, idx |-> 1, valid |-> <<>>, alone |-> TRUE]

NoJobs == [p \in Operations |-> NoJob]

\* ------------------------------------------------------- MigrationService
Idle == pc = "idle"

\* getDrivers: Promise.all of the two registry lookups
GetDriversThrows(d) == d.runner = "throw" \/ d.tracker = "throw"

\* (variant: the operation falls into its outer catch block)
ServiceResultAsCatch(persisted, data) == [success |-> FALSE, data |-> <<>>, returned |-> TRUE]

\* the Result the service returns after the persistence call
ServiceResult(persisted, data) == [success |-> TRUE, data |-> data, returned |-> TRUE]

\* the filter of the request is read by tracker.available only; what is
\* kept of the request is its action and the take-limit applied to the list
Begin(action, count, d, l, thrown) ==
    /\ req' = [action |-> action, count |-> count]
    /\ drv' = d
    /\ prior' = log
    /\ idx' = 1
    /\ broke' = FALSE
    /\ valid' = <<>>
    /\ results' = <<>>
    /\ attempts' = <<>>
    /\ hooks' = <<>>
    /\ errors' = <<>>
    /\ persist' = "none"
    /\ envOk' = TRUE
    /\ fromClean' = cleanLog
    /\ IF GetDriversThrows(d) \/ thrown
       THEN /\ list' = <<>>
            /\ pc' = "done"
            /\ ret' = [success |-> FALSE, data |-> <<>>, returned |-> TRUE]
       ELSE /\ list' = l
            /\ pc' = action
            /\ ret' = NoRet
    /\ UNCHANGED <<dir, listing, log, runnerKind, deleteBy, cleanLog, info, call, conf, trackerKind, target, fileMeta, cfg, jobs>>

\* commit, up to the loop: getDrivers, then tracker?.available(req) || [];
\* available starts with tracker.last, whose rejection ends in the catch block
Commit(filter, d, k) ==
    /\ k = NoFail \/ k = 0 \/ k < Cardinality(dir)
    /\ LET thrown == d.tracker = "ok" /\ LastThrows(trackerKind, log)
           scans == ~GetDriversThrows(d) /\ d.tracker = "ok" /\ ~thrown
           l == IF d.tracker = "null" \/ thrown THEN <<>>
                ELSE InfoAt(log, ReadDir(dir, listing), filter, k).available
       IN  /\ Len(log) + Len(l) <= MaxLog
           /\ scanFailed' = (scans /\ k # NoFail)
           /\ Begin("commit", filter.count, d, l, thrown)

\* a commit called while no operation of the service is under way
CommitStart(filter, d, k) == Idle /\ Commit(filter, d, k) /\ UNCHANGED repeat

\* rollback, up to the loop: getDrivers, then tracker?.list(req) || [];
\* list does not read the filter
RollbackStart(filter, d) ==
    /\ Idle
    /\ filter \in Filters
    /\ scanFailed' = FALSE
    /\ Begin("rollback", 0, d, IF d.tracker = "null" THEN <<>> ELSE TrackerList(log), FALSE)
    /\ UNCHANGED repeat

\* (variant: the catch block logs the error and goes on with the next change)
LoopContinues(success) == FALSE

\* the catch block of the loop body ends in break
LoopBreaks(success) == ~success

\* one iteration of the for loop of commit / rollback
Step(action, out) ==
    /\ pc = action
    /\ ~broke
    /\ idx <= Len(list)
    /\ LET chg == list[idx]
           res == IF drv.runner = "null" THEN NoRun
                  ELSE RunnerCall(runnerKind, action, chg, out)
       IN  /\ attempts' = IF drv.runner = "null" THEN attempts ELSE Append(attempts, chg.file)
           /\ hooks' = IF res.hook THEN Append(hooks, chg.file) ELSE hooks
           /\ IF res.success
              THEN /\ results' = Append(results, chg.file)
                   /\ valid' = Append(valid, IF action = "commit"
                                             THEN [chg EXCEPT !.applied = TRUE] ELSE chg)
                   /\ UNCHANGED errors
              ELSE /\ errors' = Append(errors, chg.file)
                   /\ UNCHANGED <<results, valid>>
           /\ broke' = LoopBreaks(res.success)
           /\ idx' = IF LoopBreaks(res.success) THEN idx ELSE idx + 1
    /\ envOk' = (envOk /\ out = "ok")
    /\ UNCHANGED <<dir, listing, log, runnerKind, deleteBy, pc, req, drv, list, persist, ret, prior,
                   cleanLog, fromClean, info, call, conf, trackerKind, scanFailed, target, fileMeta, repeat, cfg, jobs>>

RunnerCommit(out) == Step("commit", out)

RunnerRollback(out) == Step("rollback", out)

LoopOver == broke \/ idx > Len(list)

\* commit, after the loop: tracker?.add(valid, req), then return
TrackerAdd(connected, n) ==
    /\ pc = "commit"
    /\ LoopOver
    /\ n \in 0..Len(valid)
    /\ LET w == IF drv.tracker = "null" THEN [success |-> TRUE, log |-> log]
                ELSE TrackerAddOf(trackerKind, log, valid, connected, n)
       IN  /\ log' = w.log
           /\ persist' = IF drv.tracker = "null" THEN "skipped"
                         ELSE IF w.success THEN "ok" ELSE "failed"
           /\ ret' = ServiceResult(w.success, results)
           /\ envOk' = (envOk /\ connected /\ n = Len(valid))
           /\ cleanLog' = (envOk /\ w.success /\ drv.tracker = "ok" /\ log = <<>>
                              /\ valid # <<>> /\ ~broke)
    /\ pc' = "done"
    /\ UNCHANGED <<dir, listing, runnerKind, deleteBy, req, drv, list, idx, broke, valid,
                   results, attempts, hooks, errors, prior, fromClean, info, call, conf, trackerKind, scanFailed, target, fileMeta, repeat, cfg, jobs>>

\* rollback, after the loop: tracker?.delete(valid, req), then return
TrackerDelete(connected) ==
    /\ pc = "rollback"
    /\ LoopOver
    /\ LET w == IF drv.tracker = "null" THEN [success |-> TRUE, log |-> log]
                ELSE TrackerDeleteOf(trackerKind, deleteBy, log, valid, connected)
       IN  /\ log' = w.log
           /\ persist' = IF drv.tracker = "null" THEN "skipped"
                         ELSE IF w.success THEN "ok" ELSE "failed"
           /\ ret' = ServiceResult(w.success, results)
           /\ envOk' = (envOk /\ connected)
           /\ cleanLog' = FALSE
    /\ pc' = "done"
    /\ UNCHANGED <<dir, listing, runnerKind, deleteBy, req, drv, list, idx, broke, valid,
                   results, attempts, hooks, errors, prior, fromClean, info, call, conf, trackerKind, scanFailed, target, fileMeta, repeat, cfg, jobs>>

\* status: getDrivers, 'Tracker not available' when there is none, else the
\* Result of tracker.status(req); every throw ends in the catch block
Status(filter, d, k) ==
    /\ Idle
    /\ k = NoFail \/ k = 0 \/ k < Cardinality(dir)
    /\ req' = [action |-> "status", count |-> filter.count]
    /\ drv' = d
    /\ pc' = "done"
    /\ IF d.tracker = "ok" /\ d.runner # "throw" /\ ~LastThrows(trackerKind, log)
       THEN /\ info' = TrackerStatus(log, ReadDir(dir, listing), filter, k)
            /\ ret' = [success |-> TRUE, data |-> <<>>, returned |-> TRUE]
            /\ scanFailed' = (k # NoFail)
       ELSE /\ info' = NoInfo
            /\ ret' = [success |-> FALSE, data |-> <<>>, returned |-> TRUE]
            /\ scanFailed' = FALSE
    /\ UNCHANGED <<dir, listing, log, runnerKind, deleteBy, list, idx, broke, valid,
                   results, attempts, hooks, errors, persist, prior, envOk,
                   cleanLog, fromClean, call, conf, trackerKind, target, fileMeta, repeat, cfg, jobs>>

\* runner.compare / runner.check of the runner classes: the module-loader
\* and the shell-exec runner reject with 'Method not implemented.'; the
\* shell-evaluator's compare returns a success, its check (not an async
\* function) throws synchronously
RunnerDelegate(kind, op) ==
    IF kind = "msh" THEN (IF op = "compare" THEN "ok" ELSE "throws")
    ELSE "rejects"

\* (variant: the delegated promise is returned without await, so only a
\* synchronous throw is caught)
CatchBlockReachedSyncOnly(out) == out = "throws"

\* 'return await' inside try: a synchronous throw and a rejection of the
\* delegated call both end in the catch block
CatchBlockReached(out) == out \in {"throws", "rejects"}

\* the Result of compare / check, or the exception left to the caller
\* (returned = FALSE)
ServiceDelegate(out) ==
    IF out = "ok" THEN [success |-> TRUE, data |-> <<>>, returned |-> TRUE]
    ELSE IF CatchBlockReached(out) THEN [success |-> FALSE, data |-> <<>>, returned |-> TRUE]
    ELSE [success |-> FALSE, data |-> <<>>, returned |-> FALSE]

\* compare / check: getDrivers, 'Runner not available' when there is none,
\* else the Result of runner.compare(req) / runner.check(req)
Delegate(op, d) ==
    /\ Idle
    /\ req' = [action |-> op, count |-> 0]
    /\ drv' = d
    /\ pc' = "done"
    /\ LET out == IF GetDriversThrows(d) \/ d.runner = "null" THEN "throws"
                  ELSE RunnerDelegate(runnerKind, op)
       IN  /\ ret' = ServiceDelegate(out)
           /\ envOk' = (out = "ok")
    /\ UNCHANGED <<dir, listing, log, runnerKind, deleteBy, list, idx, broke, valid,
                   results, attempts, hooks, errors, persist, prior, cleanLog,
                   fromClean, info, call, conf, trackerKind, scanFailed, target, fileMeta, repeat, cfg, jobs>>

\* a holder of the runner driver calls runner.commit or runner.rollback
\* with a change of its own
RunnerDirect(action, f, type, out) ==
    /\ pc = "runner"
    /\ Len(attempts) < MaxLog
    /\ LET chg == [ScanChange(f) EXCEPT !.type = type]
           res == RunnerCall(runnerKind, action, chg, out)
       IN  /\ call' = [action |-> action, file |-> f, type |-> type, out |-> out,
                       run |-> res]
           /\ attempts' = Append(attempts, f)
           /\ hooks' = IF res.hook THEN Append(hooks, f) ELSE hooks
    /\ UNCHANGED <<dir, listing, log, runnerKind, deleteBy, pc, req, drv, list, idx,
                   broke, valid, results, errors, persist, ret, prior, envOk,
                   cleanLog, fromClean, info, conf, trackerKind, scanFailed, target, fileMeta, repeat, cfg, jobs>>

\* the batches a holder of the tracker driver can pass: up to two changes,
\* each with or without an applied stamp
Batches ==
    LET one == {[ScanChange(f) EXCEPT !.applied = a] : f \in Files, a \in BOOLEAN}
    IN  {<<>>} \cup {<<c>> : c \in one} \cup {<<c, e>> : c \in one, e \in one}

\* a holder of the tracker driver calls tracker.add with a batch of its own
TrackerDirectAdd(changes, connected, n) ==
    /\ pc = "tracker"
    /\ Len(log) + Len(changes) <= MaxDirect
    /\ n \in 0..Len(changes)
    /\ LET w == TrackerAddOf(trackerKind, log, changes, connected, n)
       IN  /\ log' = w.log
           /\ persist' = IF w.success THEN "ok" ELSE "failed"
           /\ ret' = [success |-> w.success, data |-> <<>>, returned |-> TRUE]
    /\ prior' = log
    /\ valid' = changes
    /\ call' = [NoCall EXCEPT !.action = "add"]
    /\ pc' = "called"
    /\ UNCHANGED <<dir, listing, runnerKind, deleteBy, req, drv, list, idx, broke,
                   results, attempts, hooks, errors, envOk, cleanLog, fromClean, info, conf, trackerKind, scanFailed, target, fileMeta, repeat, cfg, jobs>>

\* a holder of the tracker driver calls tracker.delete; data is deletedCount
TrackerDirectDelete(changes, connected) ==
    /\ pc = "tracker"
    /\ LET w == TrackerDeleteOf(trackerKind, deleteBy, log, changes, connected)
       IN  /\ log' = w.log
           /\ persist' = IF w.success THEN "ok" ELSE "failed"
           /\ ret' = [success |-> w.success, data |-> Len(log) - Len(w.log),
                      returned |-> TRUE]
    /\ prior' = log
    /\ valid' = changes
    /\ call' = [NoCall EXCEPT !.action = "delete"]
    /\ pc' = "called"
    /\ UNCHANGED <<dir, listing, runnerKind, deleteBy, req, drv, list, idx, broke,
                   results, attempts, hooks, errors, envOk, cleanLog, fromClean, info, conf, trackerKind, scanFailed, target, fileMeta, repeat, cfg, jobs>>

\* the Result of the direct call has been handed to the holder of the driver
TrackerReturn ==
    /\ pc = "called"
    /\ pc' = "tracker"
    /\ prior' = <<>>
    /\ valid' = <<>>
    /\ persist' = "none"
    /\ ret' = NoRet
    /\ call' = NoCall
    /\ UNCHANGED <<dir, listing, log, runnerKind, deleteBy, req, drv, list, idx, broke,
                   results, attempts, hooks, errors, envOk, cleanLog, fromClean, info, conf, trackerKind, scanFailed, target, fileMeta, repeat, cfg, jobs>>

\* a holder of a driver instance calls its configure; the connection and the
\* set-up of the collection or table each succeed or fail
Configure(connectOk, setupOk) ==
    /\ pc = "configure"
    /\ conf.calls < MaxLog
    /\ conf' = [DriverConfigure(conf, connectOk, setupOk) EXCEPT !.calls = conf.calls + 1]
    /\ UNCHANGED <<dir, listing, log, runnerKind, deleteBy, pc, req, drv, list, idx,
                   broke, valid, results, attempts, hooks, errors, persist, ret, prior,
                   envOk, cleanLog, fromClean, info, call, trackerKind, scanFailed, target, fileMeta, repeat, cfg, jobs>>

\* ---------------------------------------------------------- environment
\* a migration file is written to the directory between two operations
AddFile(f) ==
    /\ Idle
    /\ f \notin dir
    /\ dir' = dir \cup {f}
    /\ UNCHANGED <<listing, log, runnerKind, deleteBy, pc, req, drv, list, idx, broke, valid,
                   results, attempts, hooks, errors, persist, ret, prior,
                   envOk, cleanLog, fromClean, info, call, conf, trackerKind, scanFailed, target, fileMeta, repeat, cfg, jobs>>

\* a migration file is removed from the directory between two operations
RemoveFile(f) ==
    /\ Idle
    /\ f \in dir
    /\ dir' = dir \ {f}
    /\ UNCHANGED <<listing, log, runnerKind, deleteBy, pc, req, drv, list, idx, broke, valid,
                   results, attempts, hooks, errors, persist, ret, prior,
                   envOk, cleanLog, fromClean, info, call, conf, trackerKind, scanFailed, target, fileMeta, repeat, cfg, jobs>>

\* the Result has been handed to the caller; the operation's locals are gone
Return ==
    /\ pc = "done"
    /\ pc' = "idle"
    /\ req' = [action |-> "none", count |-> 0]
    /\ drv' = [runner |-> "ok", tracker |-> "ok"]
    /\ list' = <<>>
    /\ idx' = 1
    /\ broke' = FALSE
    /\ valid' = <<>>
    /\ results' = <<>>
    /\ attempts' = <<>>
    /\ hooks' = <<>>
    /\ errors' = <<>>
    /\ persist' = "none"
    /\ ret' = NoRet
    /\ prior' = <<>>
    /\ envOk' = TRUE
    /\ fromClean' = FALSE
    /\ info' = NoInfo
    /\ scanFailed' = FALSE
    /\ UNCHANGED <<dir, listing, log, runnerKind, deleteBy, cleanLog, call, conf, trackerKind, target, fileMeta, repeat, cfg, jobs>>

\* ------------------------------------------------------- specification
Init ==
    /\ dir = {}
    /\ listing \in {"asc", "desc"}
    /\ log = <<>>
    /\ runnerKind \in {"mdb", "bin"}
    /\ deleteBy \in {"id", "pair"}
    /\ pc = "idle"
    /\ req = [action |-> "none", count |-> 0]
    /\ drv = [runner |-> "ok", tracker |-> "ok"]
    /\ list = <<>>
    /\ idx = 1
    /\ broke = FALSE
    /\ valid = <<>>
    /\ results = <<>>
    /\ attempts = <<>>
    /\ hooks = <<>>
    /\ errors = <<>>
    /\ persist = "none"
    /\ ret = NoRet
    /\ prior = <<>>
    /\ envOk = TRUE
    /\ cleanLog = FALSE
    /\ fromClean = FALSE
    /\ info = NoInfo
    /\ call = NoCall
    /\ jobs = NoJobs
    /\ cfg = NoCfg
    /\ repeat = NoRepeat
    /\ fileMeta = NoMeta
    /\ target = <<>>
    /\ scanFailed = FALSE
    /\ trackerKind \in ServiceTrackers
    /\ conf = NoConf

Next ==
    \/ \E filter \in Filters, d \in DriverCases : CommitStart(filter, d, NoFail)
    \/ \E out \in Outcomes(runnerKind) : RunnerCommit(out)
    \/ \E connected \in BOOLEAN, n \in 0..MaxLog : TrackerAdd(connected, n)
    \/ \E filter \in Filters, d \in DriverCases : RollbackStart(filter, d)
    \/ \E out \in Outcomes(runnerKind) : RunnerRollback(out)
    \/ \E connected \in BOOLEAN : TrackerDelete(connected)
    \/ \E f \in Files : AddFile(f)
    \/ Return

Spec == Init /\ [][Next]_vars

\* ------------------------------------- specification of the tracker's info
\* the logs earlier operations can have left: any sequence of recorded
\* changes (a name filter lets commit record any file at any time)
RECURSIVE Logs(_)
Logs(n) ==
    IF n = 0 THEN {<<>>}
    ELSE LET shorter == Logs(n - 1)
         IN  shorter \cup
             {Append(l, Doc([ScanChange(f) EXCEPT !.applied = TRUE])) :
                 l \in {x \in shorter : Len(x) = n - 1}, f \in Files}

\* status is asked of any directory content and any log; the runner and the
\* delete revision are not read by it
InitInfo ==
    /\ dir \in SUBSET Files
    /\ listing \in {"asc", "desc"}
    /\ log \in Logs(MaxLog)
    /\ runnerKind = "mdb"
    /\ deleteBy = "pair"
    /\ pc = "idle"
    /\ req = [action |-> "none", count |-> 0]
    /\ drv = [runner |-> "ok", tracker |-> "ok"]
    /\ list = <<>>
    /\ idx = 1
    /\ broke = FALSE
    /\ valid = <<>>
    /\ results = <<>>
    /\ attempts = <<>>
    /\ hooks = <<>>
    /\ errors = <<>>
    /\ persist = "none"
    /\ ret = NoRet
    /\ prior = <<>>
    /\ envOk = TRUE
    /\ cleanLog = FALSE
    /\ fromClean = FALSE
    /\ info = NoInfo
    /\ call = NoCall
    /\ jobs = NoJobs
    /\ cfg = NoCfg
    /\ repeat = NoRepeat
    /\ fileMeta = NoMeta
    /\ target = <<>>
    /\ scanFailed = FALSE
    /\ trackerKind = "MdbTracker"
    /\ conf = NoConf

NextInfo ==
    \/ \E filter \in Filters, d \in DriverCases : Status(filter, d, NoFail)
    \/ \E f \in Files : AddFile(f)
    \/ \E f \in Files : RemoveFile(f)
    \/ Return

SpecInfo == InitInfo /\ [][NextInfo]_vars

\* ------------------------------- specification of the runner driver alone
InitRunner ==
    /\ dir = {}
    /\ listing = "asc"
    /\ log = <<>>
    /\ runnerKind \in {"mdb", "bin", "msh"}
    /\ deleteBy = "pair"
    /\ pc = "runner"
    /\ req = [action |-> "none", count |-> 0]
    /\ drv = [runner |-> "ok", tracker |-> "ok"]
    /\ list = <<>>
    /\ idx = 1
    /\ broke = FALSE
    /\ valid = <<>>
    /\ results = <<>>
    /\ attempts = <<>>
    /\ hooks = <<>>
    /\ errors = <<>>
    /\ persist = "none"
    /\ ret = NoRet
    /\ prior = <<>>
    /\ envOk = TRUE
    /\ cleanLog = FALSE
    /\ fromClean = FALSE
    /\ info = NoInfo
    /\ call = NoCall
    /\ jobs = NoJobs
    /\ cfg = NoCfg
    /\ repeat = NoRepeat
    /\ fileMeta = NoMeta
    /\ target = <<>>
    /\ scanFailed = FALSE
    /\ trackerKind = "MdbTracker"
    /\ conf = NoConf

NextRunner ==
    \E action \in {"commit", "rollback"}, f \in Files, type \in Types,
       out \in RunnerPaths(runnerKind) : RunnerDirect(action, f, type, out)

SpecRunner == InitRunner /\ [][NextRunner]_vars

\* ------------------------------ specification of the tracker driver alone
InitTracker ==
    /\ dir = {}
    /\ listing = "asc"
    /\ log = <<>>
    /\ runnerKind = "mdb"
    /\ deleteBy \in {"id", "pair"}
    /\ pc = "tracker"
    /\ req = [action |-> "none", count |-> 0]
    /\ drv = [runner |-> "ok", tracker |-> "ok"]
    /\ list = <<>>
    /\ idx = 1
    /\ broke = FALSE
    /\ valid = <<>>
    /\ results = <<>>
    /\ attempts = <<>>
    /\ hooks = <<>>
    /\ errors = <<>>
    /\ persist = "none"
    /\ ret = NoRet
    /\ prior = <<>>
    /\ envOk = TRUE
    /\ cleanLog = FALSE
    /\ fromClean = FALSE
    /\ info = NoInfo
    /\ call = NoCall
    /\ jobs = NoJobs
    /\ cfg = NoCfg
    /\ repeat = NoRepeat
    /\ fileMeta = NoMeta
    /\ target = <<>>
    /\ scanFailed = FALSE
    /\ trackerKind \in TrackerKinds
    /\ conf = NoConf

NextTracker ==
    \/ \E changes \in Batches, connected \in BOOLEAN, n \in 0..MaxDirect :
          TrackerDirectAdd(changes, connected, n)
    \/ \E changes \in {b \in Batches : \A i \in 1..Len(b) : ~b[i].applied},
          connected \in BOOLEAN : TrackerDirectDelete(changes, connected)
    \/ TrackerReturn

SpecTracker == InitTracker /\ [][NextTracker]_vars

\* ---------------------------------- specification of configure, repeated
\* one instance of one driver class; the store may already hold the
\* collection or table; sqlite's store is a file or ':memory:'
InitConfigure ==
    /\ dir = {}
    /\ listing = "asc"
    /\ log = <<>>
    /\ runnerKind = "mdb"
    /\ deleteBy = "pair"
    /\ pc = "configure"
    /\ req = [action |-> "none", count |-> 0]
    /\ drv = [runner |-> "ok", tracker |-> "ok"]
    /\ list = <<>>
    /\ idx = 1
    /\ broke = FALSE
    /\ valid = <<>>
    /\ results = <<>>
    /\ attempts = <<>>
    /\ hooks = <<>>
    /\ errors = <<>>
    /\ persist = "none"
    /\ ret = NoRet
    /\ prior = <<>>
    /\ envOk = TRUE
    /\ cleanLog = FALSE
    /\ fromClean = FALSE
    /\ info = NoInfo
    /\ call = NoCall
    /\ jobs = NoJobs
    /\ cfg = NoCfg
    /\ repeat = NoRepeat
    /\ fileMeta = NoMeta
    /\ target = <<>>
    /\ scanFailed = FALSE
    /\ trackerKind = "MdbTracker"
    /\ \E d \in Drivers, e \in BOOLEAN, m \in BOOLEAN :
          /\ (m => (d = "SqliteTracker" /\ ~e))
          /\ conf = [NoConf EXCEPT !.driver = d, !.exists = e, !.durable = ~m]

NextConfigure ==
    \E connectOk \in BOOLEAN, setupOk \in BOOLEAN : Configure(connectOk, setupOk)

SpecConfigure == InitConfigure /\ [][NextConfigure]_vars

\* ----------------------- specification of commit and status side by side
\* one deployment (the module-loader runner), no rollback: the directory
\* grows, commits record changes, status reports
InitCommit == Init /\ runnerKind = "mdb" /\ deleteBy = "pair"

NextCommit ==
    \/ \E filter \in Filters, d \in DriverCases : CommitStart(filter, d, NoFail)
    \/ \E out \in Outcomes(runnerKind) : RunnerCommit(out)
    \/ \E connected \in BOOLEAN, n \in 0..MaxLog : TrackerAdd(connected, n)
    \/ \E filter \in Filters, d \in DriverCases : Status(filter, d, NoFail)
    \/ \E f \in Files : AddFile(f)
    \/ Return

SpecCommit == InitCommit /\ [][NextCommit]_vars

\* --------------------- specification of commit and status on a file system
\* whose reads can fail: readdir, or the stat of an entry part-way through
InitScan == InitCommit /\ trackerKind = "MdbTracker"

NextScan ==
    \/ \E filter \in Filters, d \in DriverCases, k \in 0..NoFail : CommitStart(filter, d, k)
    \/ \E out \in Outcomes(runnerKind) : RunnerCommit(out)
    \/ \E connected \in BOOLEAN, n \in 0..MaxLog : TrackerAdd(connected, n)
    \/ \E filter \in Filters, d \in DriverCases, k \in 0..NoFail : Status(filter, d, k)
    \/ \E f \in Files : AddFile(f)
    \/ Return

SpecScan == InitScan /\ [][NextScan]_vars

\* ------------------- specification of the delegating service operations
\* compare, check and status, on any registered runner and tracker class
InitDelegate ==
    /\ dir = {}
    /\ listing \in {"asc", "desc"}
    /\ log = <<>>
    /\ runnerKind \in {"mdb", "bin", "msh"}
    /\ deleteBy = "pair"
    /\ pc = "idle"
    /\ req = [action |-> "none", count |-> 0]
    /\ drv = [runner |-> "ok", tracker |-> "ok"]
    /\ list = <<>>
    /\ idx = 1
    /\ broke = FALSE
    /\ valid = <<>>
    /\ results = <<>>
    /\ attempts = <<>>
    /\ hooks = <<>>
    /\ errors = <<>>
    /\ persist = "none"
    /\ ret = NoRet
    /\ prior = <<>>
    /\ envOk = TRUE
    /\ cleanLog = FALSE
    /\ fromClean = FALSE
    /\ info = NoInfo
    /\ call = NoCall
    /\ jobs = NoJobs
    /\ cfg = NoCfg
    /\ repeat = NoRepeat
    /\ fileMeta = NoMeta
    /\ target = <<>>
    /\ scanFailed = FALSE
    /\ trackerKind \in ServiceTrackers
    /\ conf = NoConf

NextDelegate ==
    \/ \E op \in {"compare", "check"}, d \in DriverCases : Delegate(op, d)
    \/ \E filter \in Filters, d \in DriverCases : Status(filter, d, NoFail)
    \/ \E f \in Files : AddFile(f)
    \/ Return

SpecDelegate == InitDelegate /\ [][NextDelegate]_vars

\* --------------------------- specification of the parsing of a base name
\* BaseTracker.scan hands the base name of a directory entry to meta
ParseName ==
    /\ pc = "meta"
    /\ fileMeta' = Meta(target)
    /\ pc' = "parsed"
    /\ UNCHANGED <<dir, listing, log, runnerKind, deleteBy, req, drv, list, idx, broke, valid,
                   results, attempts, hooks, errors, persist, ret, prior, envOk, cleanLog,
                   fromClean, info, call, conf, trackerKind, scanFailed, target, repeat, cfg, jobs>>

InitMeta ==
    /\ dir = {}
    /\ listing = "asc"
    /\ log = <<>>
    /\ runnerKind = "mdb"
    /\ deleteBy = "pair"
    /\ pc = "meta"
    /\ req = [action |-> "none", count |-> 0]
    /\ drv = [runner |-> "ok", tracker |-> "ok"]
    /\ list = <<>>
    /\ idx = 1
    /\ broke = FALSE
    /\ valid = <<>>
    /\ results = <<>>
    /\ attempts = <<>>
    /\ hooks = <<>>
    /\ errors = <<>>
    /\ persist = "none"
    /\ ret = NoRet
    /\ prior = <<>>
    /\ envOk = TRUE
    /\ cleanLog = FALSE
    /\ fromClean = FALSE
    /\ info = NoInfo
    /\ call = NoCall
    /\ jobs = NoJobs
    /\ cfg = NoCfg
    /\ repeat = NoRepeat
    /\ fileMeta = NoMeta
    /\ target \in NamesUpTo(MaxName)
    /\ scanFailed = FALSE
    /\ trackerKind = "MdbTracker"
    /\ conf = NoConf

NextMeta == ParseName

SpecMeta == InitMeta /\ [][NextMeta]_vars

\* ------------------- specification of a commit repeated with its request
\* a commit whose request the caller keeps, to send it again
CommitFirst(filter) ==
    /\ Idle
    /\ Commit(filter, [runner |-> "ok", tracker |-> "ok"], NoFail)
    /\ repeat' = [filter |-> filter, stage |-> "first", failed |-> 0,
                  full |-> Info(log, ReadDir(dir, listing), filter).ignored = <<>>]

\* the first commit has returned: it left no change ignored, every change of
\* its list succeeded and the tracker recorded them all; the caller sends
\* the same request again at once
CommitAgain ==
    /\ pc = "done"
    /\ req.action = "commit"
    /\ repeat.stage = "first"
    /\ repeat.full
    /\ ret.success
    /\ persist = "ok"
    /\ envOk
    /\ ~broke
    /\ Len(valid) = Len(list)
    /\ Commit(repeat.filter, [runner |-> "ok", tracker |-> "ok"], NoFail)
    /\ repeat' = [repeat EXCEPT !.stage = "again"]

\* the first commit has returned: its runner failed at a change and the
\* tracker recorded the changes that had succeeded before it; the caller
\* sends the request again
CommitResume ==
    /\ pc = "done"
    /\ req.action = "commit"
    /\ repeat.stage = "first"
    /\ broke
    /\ errors # <<>>
    /\ persist = "ok"
    /\ FilesOf(valid) \subseteq FilesOf(log)
    /\ Commit(repeat.filter, [runner |-> "ok", tracker |-> "ok"], NoFail)
    /\ repeat' = [repeat EXCEPT !.stage = "resume", !.failed = errors[1]]

InitRepeat == Init /\ runnerKind = "mdb" /\ deleteBy = "pair"

NextRepeat ==
    \/ \E filter \in Filters : CommitFirst(filter)
    \/ \E out \in Outcomes(runnerKind) : RunnerCommit(out)
    \/ \E connected \in BOOLEAN, n \in 0..MaxLog : TrackerAdd(connected, n)
    \/ CommitAgain
    \/ CommitResume
    \/ \E f \in Files : AddFile(f)
    \/ Return

SpecRepeat == InitRepeat /\ [][NextRepeat]_vars

\* ------------- specification of commit invoked again and again, unfiltered
\* every runner call succeeds and the tracker records every batch; files are
\* added to the directory between the commits
CommitSteps ==
    \/ CommitStart(NoFilter, [runner |-> "ok", tracker |-> "ok"], NoFail)
    \/ RunnerCommit("ok")
    \/ TrackerAdd(TRUE, Len(valid))
    \/ Return

NextLive ==
    \/ CommitSteps
    \/ \E f \in Files : AddFile(f)

\* the caller keeps invoking commit, and each invocation runs to its return
SpecLive == InitScan /\ [][NextLive]_vars /\ WF_vars(CommitSteps)

\* -------------- specification of commit and status on the relational tracker
\* the table is empty, or holds the row an earlier tracker.add inserted
InitSqlite ==
    /\ dir = {}
    /\ listing \in {"asc", "desc"}
    /\ log \in {<<>>} \cup {<<SqliteRow(ScanChange(f))>> : f \in Files}
    /\ runnerKind = "mdb"
    /\ deleteBy = "pair"
    /\ pc = "idle"
    /\ req = [action |-> "none", count |-> 0]
    /\ drv = [runner |-> "ok", tracker |-> "ok"]
    /\ list = <<>>
    /\ idx = 1
    /\ broke = FALSE
    /\ valid = <<>>
    /\ results = <<>>
    /\ attempts = <<>>
    /\ hooks = <<>>
    /\ errors = <<>>
    /\ persist = "none"
    /\ ret = NoRet
    /\ prior = <<>>
    /\ envOk = TRUE
    /\ cleanLog = FALSE
    /\ fromClean = FALSE
    /\ info = NoInfo
    /\ call = NoCall
    /\ jobs = NoJobs
    /\ cfg = NoCfg
    /\ repeat = NoRepeat
    /\ fileMeta = NoMeta
    /\ target = <<>>
    /\ scanFailed = FALSE
    /\ trackerKind = "SqliteTracker"
    /\ conf = NoConf

SpecSqlite == InitSqlite /\ [][NextCommit]_vars

\* ---------------- specification of configure calls on one MdbTracker that
\* interleave at their await points
Configuring(p) ==
    /\ cfg.at[p] = "none"
    /\ cfg' = ConfigureCall(cfg, p)
    /\ UNCHANGED <<dir, listing, log, runnerKind, deleteBy, pc, req, drv, list, idx, broke, valid,
                   results, attempts, hooks, errors, persist, ret, prior, envOk, cleanLog,
                   fromClean, info, call, conf, trackerKind, scanFailed, target, fileMeta, repeat, jobs>>

\* the await on a value that is already there resumes before any I/O completes
Resuming(p, ok) ==
    /\ cfg.at[p] \in {"client.connect", "connect returned", "listCollections",
                      "createCollection", "createIndexes"}
    /\ cfg.at[p] # "connect returned" => \A q \in Callers : cfg.at[q] # "connect returned"
    /\ ok \/ cfg.at[p] = "client.connect"
    /\ cfg' = ConfigureResume(cfg, p, ok)
    /\ UNCHANGED <<dir, listing, log, runnerKind, deleteBy, pc, req, drv, list, idx, broke, valid,
                   results, attempts, hooks, errors, persist, ret, prior, envOk, cleanLog,
                   fromClean, info, call, conf, trackerKind, scanFailed, target, fileMeta, repeat, jobs>>

\* the collection may be there from an earlier run
InitOverlap ==
    /\ dir = {}
    /\ listing = "asc"
    /\ log = <<>>
    /\ runnerKind = "mdb"
    /\ deleteBy = "pair"
    /\ pc = "idle"
    /\ req = [action |-> "none", count |-> 0]
    /\ drv = [runner |-> "ok", tracker |-> "ok"]
    /\ list = <<>>
    /\ idx = 1
    /\ broke = FALSE
    /\ valid = <<>>
    /\ results = <<>>
    /\ attempts = <<>>
    /\ hooks = <<>>
    /\ errors = <<>>
    /\ persist = "none"
    /\ ret = NoRet
    /\ prior = <<>>
    /\ envOk = TRUE
    /\ cleanLog = FALSE
    /\ fromClean = FALSE
    /\ info = NoInfo
    /\ call = NoCall
    /\ jobs = NoJobs
    /\ \E e \in BOOLEAN : cfg = [NoCfg EXCEPT !.exists = e]
    /\ repeat = NoRepeat
    /\ fileMeta = NoMeta
    /\ target = <<>>
    /\ scanFailed = FALSE
    /\ trackerKind = "MdbTracker"
    /\ conf = NoConf

NextOverlap ==
    \/ \E p \in Callers : Configuring(p)
    \/ \E p \in Callers, ok \in BOOLEAN : Resuming(p, ok)

SpecOverlap == InitOverlap /\ [][NextOverlap]_vars

\* ----------------- specification of commits of one service, on one directory
\* and one tracker, that interleave at their await points
\* commit is called: getDrivers, then tracker.available is awaited
CommitCalled(p) ==
    /\ jobs[p].at = "none"
    /\ jobs' = [jobs EXCEPT ![p].at = "available",
                            ![p].alone = \A q \in Operations : jobs[q].at \in {"none", "done"}]
    /\ UNCHANGED <<log, hooks>>
    /\ UNCHANGED <<dir, listing, runnerKind, deleteBy, pc, req, drv, list, idx, broke, valid,
                   results, attempts, errors, persist, ret, prior, envOk, cleanLog,
                   fromClean, info, call, conf, trackerKind, scanFailed, target, fileMeta,
                   repeat, cfg>>

\* tracker.available resolves: last is read from the collection, the
\* directory is scanned; the loop awaits runner.commit of its first change
CommitListed(p) ==
    /\ jobs[p].at = "available"
    /\ jobs' = [jobs EXCEPT ![p].list = Available(log, ReadDir(dir, listing), NoFilter),
                            ![p].at = "loop"]
    /\ UNCHANGED <<log, hooks>>
    /\ UNCHANGED <<dir, listing, runnerKind, deleteBy, pc, req, drv, list, idx, broke, valid,
                   results, attempts, errors, persist, ret, prior, envOk, cleanLog,
                   fromClean, info, call, conf, trackerKind, scanFailed, target, fileMeta,
                   repeat, cfg>>

\* runner.commit of the change at idx resolves
CommitRan(p, out) ==
    /\ jobs[p].at = "loop"
    /\ jobs[p].idx <= Len(jobs[p].list)
    /\ LET chg == jobs[p].list[jobs[p].idx]
           res == RunnerCall(runnerKind, "commit", chg, out)
       IN  /\ hooks' = IF res.hook THEN Append(hooks, chg.file) ELSE hooks
           /\ jobs' = IF res.success
                      THEN [jobs EXCEPT ![p].valid = Append(@, [chg EXCEPT !.applied = TRUE]),
                                        ![p].idx = @ + 1]
                      ELSE [jobs EXCEPT ![p].at = "add"]
    /\ UNCHANGED log
    /\ UNCHANGED <<dir, listing, runnerKind, deleteBy, pc, req, drv, list, idx, broke, valid,
                   results, attempts, errors, persist, ret, prior, envOk, cleanLog,
                   fromClean, info, call, conf, trackerKind, scanFailed, target, fileMeta,
                   repeat, cfg>>

\* the loop is over: tracker.add(valid) resolves and commit returns
CommitAdded(p) ==
    /\ \/ jobs[p].at = "add"
       \/ jobs[p].at = "loop" /\ jobs[p].idx > Len(jobs[p].list)
    /\ log' = MdbTrackerAdd(log, jobs[p].valid, TRUE, Len(jobs[p].valid)).log
    /\ jobs' = [jobs EXCEPT ![p].at = "done"]
    /\ UNCHANGED hooks
    /\ UNCHANGED <<dir, listing, runnerKind, deleteBy, pc, req, drv, list, idx, broke, valid,
                   results, attempts, errors, persist, ret, prior, envOk, cleanLog,
                   fromClean, info, call, conf, trackerKind, scanFailed, target, fileMeta,
                   repeat, cfg>>

InitParallel ==
    /\ dir \in SUBSET Files
    /\ listing \in {"asc", "desc"}
    /\ log = <<>>
    /\ runnerKind = "mdb"
    /\ deleteBy = "pair"
    /\ pc = "idle"
    /\ req = [action |-> "none", count |-> 0]
    /\ drv = [runner |-> "ok", tracker |-> "ok"]
    /\ list = <<>>
    /\ idx = 1
    /\ broke = FALSE
    /\ valid = <<>>
    /\ results = <<>>
    /\ attempts = <<>>
    /\ hooks = <<>>
    /\ errors = <<>>
    /\ persist = "none"
    /\ ret = NoRet
    /\ prior = <<>>
    /\ envOk = TRUE
    /\ cleanLog = FALSE
    /\ fromClean = FALSE
    /\ info = NoInfo
    /\ call = NoCall
    /\ jobs = NoJobs
    /\ cfg = NoCfg
    /\ repeat = NoRepeat
    /\ fileMeta = NoMeta
    /\ target = <<>>
    /\ scanFailed = FALSE
    /\ trackerKind = "MdbTracker"
    /\ conf = NoConf

NextParallel ==
    \/ \E p \in Operations : CommitCalled(p)
    \/ \E p \in Operations : CommitListed(p)
    \/ \E p \in Operations, out \in {"ok", "fail"} : CommitRan(p, out)
    \/ \E p \in Operations : CommitAdded(p)

SpecParallel == InitParallel /\ [][NextParallel]_vars

\* ================================================================ claims
\* the operation got past driver resolution and its first tracker read
ReadThrew == drv.tracker = "ok" /\ LastThrows(trackerKind, prior)

CommitDone ==
    pc = "done" /\ req.action = "commit" /\ ~GetDriversThrows(drv) /\ ~ReadThrew

RollbackDone == pc = "done" /\ req.action = "rollback" /\ ~GetDriversThrows(drv)

\* the changes of the batch before the first runner failure, c1..c_{k-1}
\* (the whole list when no change failed)
Prefix == SubSeq(list, 1, idx - 1)

\* the changes from the first runner failure on, ck..cN
Rest == SubSeq(list, idx, Len(list))

NoDup(l) == \A i, j \in 1..Len(l) : l[i].file = l[j].file => i = j

\* C1: prefix persistence.  When commit returns (the log write having gone
\* through), the applied log is the log before the call followed by
\* c1..c_{k-1} in order, and none of ck..cN is in it.
C1_PrefixPersistence ==
    (CommitDone /\ persist # "failed") =>
        /\ FileSeq(log) = FileSeq(prior) \o FileSeq(Prefix)
        /\ \A i \in 1..Len(Rest) : Rest[i].file \notin FilesOf(log)

\* C2: stop on first error.  Once a runner call of a commit batch has failed
\* the service makes no further runner call, invokes no further hook and
\* moves no further change into the valid prefix.
C2_StopOnFirstError ==
    [][(pc = "commit" /\ errors # <<>>) =>
          (attempts' = attempts /\ hooks' = hooks /\ valid' = valid)]_vars

\* a commit batch returned after the runner failed with changes still ahead
C2_Witness ==
    /\ CommitDone
    /\ errors # <<>>
    /\ attempts # <<>>
    /\ idx < Len(list)

C4_PersistenceErrorsSurfaced ==
    (pc = "done" /\ persist = "failed") => ~ret.success

\* C5: resolution errors.  When the runner or the tracker driver is not
\* available the operation returns success = false, invokes no hook and
\* leaves the log unchanged.
C5_ResolutionErrors ==
    (pc = "done" /\ (drv.runner # "ok" \/ drv.tracker # "ok")) =>
        /\ ~ret.success
        /\ hooks = <<>>
        /\ log = prior

\* C6: monotonic created.  A commit never hands the runner, nor records, a
\* change whose created is not later than the created of the last applied
\* entry, and created never decreases along the applied log.
C6_MonotonicCreated ==
    /\ req.action = "commit" =>
          \A i \in 1..Len(attempts) : Created(attempts[i]) > LastCreated(prior)
    /\ \A i, j \in 1..Len(log) : i < j => log[i].created <= log[j].created

\* C7: no duplicates.  The applied log never holds two entries with the same
\* (file, name), and a commit never hands the runner a change that is
\* already in the log.
C7_NoDuplicates ==
    /\ NoDup(log)
    /\ req.action = "commit" =>
          \A i \in 1..Len(attempts) : attempts[i] \notin FilesOf(prior)

\* C8: rollback symmetry.  A rollback that follows a commit which applied
\* c1..cN to an empty log, no hook and no database call failing, leaves the
\* log empty and has invoked the rollback hook exactly once for each ci.
C8_RollbackSymmetry ==
    (RollbackDone /\ fromClean /\ envOk /\ drv.runner = "ok" /\ drv.tracker = "ok") =>
        /\ log = <<>>
        /\ Len(hooks) = Len(prior)
        /\ \A i \in 1..Len(prior) :
              Cardinality({j \in 1..Len(hooks) : hooks[j] = prior[i].file}) = 1

\* C9: partial rollback.  With the log [a, b, c], when the runner rolled
\* back a and failed at b (the delete call itself going through), the log
\* afterwards is [b, c], c was not attempted, and the result is a success
\* holding a's result only.
C9_PartialRollback ==
    (RollbackDone /\ Len(prior) = 3 /\ NoDup(prior) /\ broke /\ idx = 2
        /\ persist # "failed" /\ drv.tracker = "ok") =>
        /\ FileSeq(log) = FileSeq(SubSeq(prior, 2, 3))
        /\ attempts = FileSeq(SubSeq(prior, 1, 2))
        /\ ret.success
        /\ ret.data = <<prior[1].file>>

\* C10: one rollback touches only the most recently applied change: no
\* rollback hook runs for an earlier entry and the earlier entries of the
\* log are still there afterwards.
C10_RollbackOnlyLast ==
    (RollbackDone /\ prior # <<>>) =>
        /\ \A i \in 1..Len(hooks) : hooks[i] = prior[Len(prior)].file
        /\ Len(log) >= Len(prior) - 1
        /\ SubSeq(log, 1, Len(prior) - 1) = SubSeq(prior, 1, Len(prior) - 1)

\* C11: the tracker is updated after each successful step.  While a batch
\* is in its loop (the next runner call about to start, or the batch cut
\* short there), every change whose runner call already succeeded is
\* reflected in the persisted log: appended by a commit, removed by a
\* rollback.
C11_TrackerUpdatedPerStep ==
    /\ (pc = "commit" /\ drv.tracker = "ok") =>
          FileSeq(log) = FileSeq(prior) \o FileSeq(valid)
    /\ (pc = "rollback" /\ drv.tracker = "ok") =>
          \A i \in 1..Len(valid) : valid[i].file \notin FilesOf(log)

StatusDone == pc = "done" /\ req.action = "status" /\ ret.success

SetOf(q) == {q[i] : i \in 1..Len(q)}

\* C12: set algebra.  In every status result the four sets applied,
\* available, ignored and missing are pairwise disjoint and their union is
\* the union of the scanned directory and the applied log.
C12_SetAlgebra ==
    StatusDone =>
        LET parts == <<SetOf(info.applied), SetOf(info.available),
                       SetOf(info.ignored), SetOf(info.missing)>>
        IN  /\ \A i, j \in 1..4 : i < j => parts[i] \cap parts[j] = {}
            /\ UNION {parts[i] : i \in 1..4} = dir \cup FilesOf(log)

\* C13: missing is exactly the applied-log entries whose file is absent from
\* the scanned directory; with the log [a, b] and only b on disk, missing is
\* [a] and available is [].
C13_MissingIsLostArtifacts ==
    StatusDone =>
        /\ SetOf(info.missing) = FilesOf(log) \ dir
        /\ (Len(log) = 2 /\ log[1].created < log[2].created
                /\ dir = {log[2].file} /\ ~info.filter.hasName) =>
              (info.missing = <<log[1].file>> /\ info.available = <<>>)

\* the ordered candidates of a status request: the accepted bag of the scan
Candidates ==
    FileSeq(Scan(ReadDir(dir, listing), LastCreated(log), info.filter).available)

\* C14: filter.count = N > 0 is a take-limit: available is the first
\* min(N, |candidates|) candidates, ignored the remaining tail, available
\* followed by ignored is the candidate list; a commit iterates at most N
\* changes and calls the runner only for changes of that list, in order.
C14_CountIsTakeLimit ==
    /\ (StatusDone /\ info.filter.count > 0) =>
          LET n == IF info.filter.count < Len(Candidates)
                   THEN info.filter.count ELSE Len(Candidates)
          IN  /\ info.available = SubSeq(Candidates, 1, n)
              /\ info.ignored = SubSeq(Candidates, n + 1, Len(Candidates))
              /\ info.available \o info.ignored = Candidates
    /\ (req.action = "commit" /\ req.count > 0) =>
          /\ Len(list) <= req.count
          /\ attempts = FileSeq(SubSeq(list, 1, Len(attempts)))

\* three pending files and count = 1: one available, two ignored
C14_Witness ==
    /\ StatusDone
    /\ info.filter.count = 1
    /\ Len(Candidates) = 3
    /\ Len(info.available) = 1
    /\ Len(info.ignored) = 2

\* by created ascending, ties by file name
OrderedByCreatedThenName(q) ==
    \A i, j \in 1..Len(q) :
        i < j => \/ Created(q[i]) < Created(q[j])
                 \/ (Created(q[i]) = Created(q[j]) /\ q[i] < q[j])

\* C15: order.  Whatever order the directory listing has, the available
\* list of a status is ordered by created ascending with ties broken by file
\* name, and a commit calls the runner in exactly that order.
C15_Order ==
    /\ StatusDone => OrderedByCreatedThenName(info.available)
    /\ req.action = "commit" =>
          /\ OrderedByCreatedThenName(FileSeq(list))
          /\ attempts = FileSeq(SubSeq(list, 1, Len(attempts)))

\* C16: type gate.  runner.commit and runner.rollback treat a change
\* without type as one of type module (same Result, the hook invoked), and
\* reject a change of another type with success = false, invoking no hook.
C16_TypeGate ==
    (pc = "runner" /\ call.action # "none") =>
        LET asModule == RunnerCall(runnerKind, call.action,
                           [ScanChange(call.file) EXCEPT !.type = "module"], call.out)
        IN  /\ call.type = NoType =>
                  (call.run.success = asModule.success /\ call.run.hook = asModule.hook)
            /\ call.type \notin {NoType, "module"} =>
                  (~call.run.success /\ ~call.run.hook)

\* C17: tracker.add is order-preserving and atomic per batch.  When it has
\* returned, either it reported success and the log is the log before
\* followed by the whole batch in input order, or it reported failure and
\* the log is the log before: never a proper prefix of the batch.
C17_AddAtomic ==
    (CommitDone /\ drv.tracker = "ok") =>
        \/ (persist = "ok" /\ log = prior \o [i \in 1..Len(valid) |-> Doc(valid[i])])
        \/ (persist = "failed" /\ log = prior)

\* C18: tracker.add stamps applied on every entry that has none, so every
\* entry of the applied log carries an applied timestamp.
C18_AppliedStamped ==
    \A i \in 1..Len(log) : log[i].applied

\* the entries of l whose (file, name) pair is not that of any change of q
WithoutPairsOf(l, q) ==
    LET keep(e) == \A i \in 1..Len(q) : q[i].file # e.file
    IN  SelectSeq(l, keep)

\* C19: tracker.delete(changes) removes exactly the log entries whose
\* (file, name) pair is that of some input change, leaves every other entry
\* as it was, and returns the number of entries removed; a delete that
\* reports failure removes nothing.
C19_DeleteExactPairs ==
    (pc = "called" /\ call.action = "delete") =>
        /\ persist = "ok" =>
              /\ log = WithoutPairsOf(prior, valid)
              /\ ret.data = Len(prior) - Len(WithoutPairsOf(prior, valid))
        /\ persist = "failed" => log = prior

\* C20: configure is idempotent.  Once a configure call on a driver
\* instance has returned, a further call opens no connection and creates no
\* collection or table, and the driver stays ready.
C20_ConfigureIdempotent ==
    [][(pc = "configure" /\ conf.ready) =>
          /\ conf'.connections = conf.connections
          /\ conf'.created = conf.created
          /\ conf'.ready]_vars

DriversOk == drv = [runner |-> "ok", tracker |-> "ok"]

\* C21: empty state.  With an empty directory and an empty applied log
\* (last yielding no change rather than an error), status succeeds and
\* reports applied, available and missing all empty, and commit returns
\* success with data [], leaves the log empty, and its tracker.add of the
\* empty batch is a success.
C21_EmptyState ==
    /\ (pc = "done" /\ req.action = "status" /\ DriversOk /\ dir = {} /\ log = <<>>) =>
          /\ ret.success
          /\ info.applied = <<>> /\ info.available = <<>> /\ info.missing = <<>>
    /\ (pc = "done" /\ req.action = "commit" /\ DriversOk /\ dir = {} /\ prior = <<>>) =>
          /\ ret.success
          /\ ret.data = <<>>
          /\ log = <<>>
          /\ envOk => persist = "ok"

\* C22: scan errors are not fatal and yield empty sets.  When reading the
\* directory, or reading an entry part-way through the scan, fails, status
\* still succeeds with empty applied and available lists, and commit has
\* nothing to iterate: it calls no runner, leaves the log as it was and
\* returns success with data [].
C22_ScanErrorsYieldEmpty ==
    /\ (pc = "done" /\ req.action = "status" /\ scanFailed) =>
          (ret.success /\ info.available = <<>> /\ info.applied = <<>>)
    /\ (req.action = "commit" /\ scanFailed) =>
          /\ list = <<>>
          /\ attempts = <<>>
          /\ pc = "done" => (ret.success /\ ret.data = <<>> /\ log = prior)

\* a sequence of files in ascending order of created
CreatedAscending(q) == \A i, j \in 1..Len(q) : i < j => Created(q[i]) <= Created(q[j])

\* C23: tracker.list returns the entire applied log ordered by created
\* ascending, and every list field of a status result (available, applied,
\* ignored, missing) is ordered by created ascending, whatever order the
\* directory listing and the store return entries in.
C23_ListsOrdered ==
    /\ StatusDone =>
          /\ CreatedAscending(info.available)
          /\ CreatedAscending(info.applied)
          /\ CreatedAscending(info.ignored)
          /\ CreatedAscending(info.missing)
    /\ LET l == FileSeq(TrackerList(log))
       IN  /\ Len(l) = Len(log)
           /\ FilesOf(TrackerList(log)) = FilesOf(log)
           /\ CreatedAscending(l)

\* C24: compare, check and status never throw to the caller: whenever
\* driver resolution or the delegated runner or tracker operation raised an
\* exception (a not-implemented operation included), the operation returns
\* a Result with success = false.
C24_DelegationsNeverThrow ==
    /\ (pc = "done" /\ req.action \in {"compare", "check"}) =>
          /\ ret.returned
          /\ ~envOk => ~ret.success
    /\ (pc = "done" /\ req.action = "status") =>
          /\ ret.returned
          /\ (GetDriversThrows(drv) \/ drv.tracker = "null" \/ LastThrows(trackerKind, log))
                => ~ret.success

\* the runner was resolved and its compare is not implemented: the
\* rejection came back as a failure Result
C24_Witness ==
    /\ pc = "done"
    /\ req.action = "compare"
    /\ DriversOk
    /\ runnerKind = "mdb"
    /\ ret.returned
    /\ ~ret.success

\* a direct runner call has returned after entering runModule
RanModule(kind) == pc = "runner" /\ runnerKind = kind /\ call.run.sessions = 1

\* C25: the module-loader runner reports success = true only when the hook
\* returned and commitTransaction succeeded; on any error raised inside the
\* transaction (by the hook, by commitTransaction, or while aborting) the
\* transaction is not committed and the runner reports success = false.
C25_TransactionOutcome ==
    RanModule("mdb") =>
        /\ call.run.success => (call.out = "ok" /\ call.run.committed)
        /\ call.out # "ok" => (~call.run.committed /\ ~call.run.success)

\* C26: session bracket.  A call of the module-loader runner opens at most
\* one session; when it runs the hook it has opened exactly one session and
\* started exactly one transaction; and on every path (hook success, hook
\* error, commitTransaction error, abortTransaction error) endSession has
\* been called exactly once per opened session when the call returns.
C26_SessionBracket ==
    (pc = "runner" /\ runnerKind = "mdb" /\ call.action # "none") =>
        /\ call.run.sessions <= 1
        /\ call.run.hook => (call.run.sessions = 1 /\ call.run.started = 1)
        /\ call.run.ended = call.run.sessions

\* the hook threw and abortTransaction threw as well: the session was ended
C26_Witness ==
    /\ RanModule("mdb")
    /\ call.out = "failAbortFails"
    /\ call.run.ended = 1

\* C27: the shell-evaluator runner reports success = true only if the
\* migration file content is non-empty and the wrapped user code ran to
\* completion with its transaction committed; when the file is empty or
\* unreadable, or the user code throws (transaction aborted), it reports
\* success = false.
C27_ShellEvaluatorOutcome ==
    (pc = "runner" /\ runnerKind = "msh" /\ call.action # "none") =>
        /\ call.run.success => (call.out = "ok" /\ call.run.committed)
        /\ call.out \in {"empty", "fail"} => ~call.run.success

\* C28: the applied field of a change is set only by Tracker.add.  While a
\* batch is in its loop, before tracker.add or tracker.delete is called, no
\* change the runner has handled carries an applied stamp: neither the
\* runner call nor the service loop has written it.
C28_AppliedOnlyByAdd ==
    pc \in {"commit", "rollback"} => \A i \in 1..Len(valid) : ~valid[i].applied

\* C29: relational tracker add.  When SqliteTracker.add has returned,
\* either every row insert succeeded, the rows of the whole batch are in the
\* table and add reported success, or a row insert reported an error, no row
\* of the batch is in the table and add reported failure.
C29_SqliteAddTransactional ==
    (pc = "called" /\ call.action = "add" /\ trackerKind = "SqliteTracker") =>
        \/ (persist = "ok" /\ log = prior \o [i \in 1..Len(valid) |-> SqliteRow(valid[i])])
        \/ (persist = "failed" /\ log = prior)

\* C30: shell-exec rollback executes only the rollback artifact.  A
\* BinRunner.rollback call executes the file derived by substituting
\* '.commit.' with '.rollback.' and only if it exists; when the derived file
\* does not exist it returns success = false without executing anything;
\* and it never executes the commit artifact itself.
C30_RollbackRunsOnlyRollbackFile ==
    (pc = "runner" /\ runnerKind = "bin" /\ call.action = "rollback") =>
        /\ call.run.ran \in {"none", "rollback"}
        /\ call.out = "fail" => (~call.run.success /\ call.run.ran = "none")
        /\ call.run.success => call.run.ran = "rollback"

\* C31: a base name is split on '.'; when its first segment parses as a
\* timestamp, created is that timestamp and name is the second segment;
\* otherwise the whole base name is the name and created is not derived
\* from the name.
C31_NameParsing ==
    pc = "parsed" =>
        LET parts == Split(target)
        IN  IF StrToDate(parts[1]) # NoDate
            THEN /\ fileMeta.created = parts[1]
                 /\ Len(parts) >= 2 => fileMeta.name = parts[2]
            ELSE /\ fileMeta.name = target
                 /\ fileMeta.created = NoDate

\* C32: commit is idempotent on an unchanged directory.  After a commit that
\* left no change ignored and in which every available change succeeded and
\* was recorded, the same request sent again at once, with or without
\* filter.name and filter.type, invokes no runner hook and leaves the
\* applied log as it was.
C32_CommitIdempotent ==
    (req.action = "commit" /\ repeat.stage = "again") =>
        /\ hooks = <<>>
        /\ log = prior

\* C33: resume after failure.  After a commit whose runner failed at a
\* change ck, the changes before it being recorded, the next commit on the
\* unchanged directory has ck at the head of its list, so that its first
\* runner call is for ck and no change before ck is skipped, and it hands
\* the runner none of the recorded changes.
C33_ResumeAtFailure ==
    (req.action = "commit" /\ repeat.stage = "resume") =>
        /\ list # <<>>
        /\ list[1].file = repeat.failed
        /\ \A i \in 1..Len(attempts) : attempts[i] \notin FilesOf(prior)

\* C34: every change that status (info) reports in its applied list is
\* present in the applied log, in every state reached by commits with or
\* without filters and by files added to the directory between them.
C34_AppliedIsLogged ==
    StatusDone =>
        \A i \in 1..Len(info.applied) : info.applied[i] \in FilesOf(log)

\* C35: eventual application.  When every runner.commit succeeds and commit
\* is invoked again and again without filters, every migration file present
\* in the directory, files added between commits included, is eventually
\* recorded in the applied log.
C35_EventuallyApplied ==
    \A f \in Files : (f \in dir) ~> (f \in FilesOf(log))

\* C36: with the relational tracker, after a commit has persisted c1..ck,
\* last returns an entry carrying ck's created timestamp, so that on the next
\* scan c1..ck are not available and every file whose created is later than
\* ck's is.
C36_SqliteLastCreated ==
    (/\ CommitDone
     /\ trackerKind = "SqliteTracker"
     /\ valid # <<>>
     /\ log = prior \o [i \in 1..Len(valid) |-> SqliteRow(valid[i])]) =>
        LET ck == valid[Len(valid)]
            next == FilesOf(Available(log, ReadDir(dir, listing), NoFilter))
        IN  /\ LastCreated(log) = ck.created
            /\ FilesOf(valid) \cap next = {}
            /\ \A f \in dir : Created(f) > ck.created => f \in next

\* C37: overlapping configure.  When operations call configure on one
\* uninitialized MdbTracker instance and interleave at its await points, the
\* tracking collection and its indexes are created at most once, and (no
\* connection attempt failing) every call completes successfully, with the
\* same connected client and the collection handle.
C37_OverlappingConfigure ==
    /\ cfg.creates <= 1
    /\ cfg.indexes <= 1
    /\ ~cfg.fault =>
          \A p \in Callers :
             /\ cfg.at[p] # "rejected"
             /\ cfg.at[p] = "resolved" => (cfg.got[p].connected /\ cfg.got[p].collection)

\* C38: overlapping commits.  When two commits of the service on the same
\* directory and tracker interleave at their await points, no change is
\* executed by the runner more than once (a change the runner failed at may
\* be tried again) and the applied log holds no two entries with the same
\* (file, name).
C38_OverlappingCommits ==
    /\ \A p, q \in Operations :
          p # q => FilesOf(jobs[p].valid) \cap FilesOf(jobs[q].valid) = {}
    /\ NoDup(log)

====
